---- MODULE Spec2Model ----
(***************************************************************************)
(* CompSnapshots: the review scraper (scrapeGoogleMapsReviews) and the     *)
(* review analysis (analyzeCompetitor).                                    *)
(*                                                                         *)
(* Text is modelled at word granularity: a string is a sequence of tokens, *)
(* the token NL standing for a line break.  A nullable value is a sequence *)
(* of length at most one: Null is <<>>, Some(v) is <<v>>.  Numbers parsed  *)
(* by parseFloat are kept in tenths (4 -> 40, 0.5 -> 5), so that a rating  *)
(* of [1,5] is a value of 10..50.                                          *)
(***************************************************************************)
EXTENDS Integers, Sequences, FiniteSets, TLC

\* ------------------------------------------------------------------ bounds
MaxItems == 3
MaxReviewsArg == 3
MaxRows == 3
MaxLines == 4
MaxRawLen == 3
MaxConcurrentItems == 2

\* ------------------------------------------------------- nullable values
Null == <<>>
Some(v) == <<v>>
Val(o) == o[1]

\* JavaScript truthiness of a nullable string (null and "" are falsy).
TruthyStr(o) == o # Null /\ Val(o) # <<>>
\* JavaScript truthiness of a nullable number (null and 0 are falsy).
TruthyNum(o) == o # Null /\ Val(o) # 0
\* x || null on a nullable string.
OrNull(o) == IF TruthyStr(o) THEN o ELSE Null

\* ------------------------------------------------------------ vocabulary
NL == "\n"

\* parseFloat of the numeric tokens, in tenths.
NumVal ==
  ("0" :> 0) @@ ("0.5" :> 5) @@ ("1" :> 10) @@ ("2" :> 20) @@ ("3" :> 30)
  @@ ("4" :> 40) @@ ("4.5" :> 45) @@ ("5" :> 50) @@ ("7" :> 70) @@ ("12" :> 120)
  @@ ("100" :> 1000)

IsNum(t) == t \in DOMAIN NumVal
\* A token on which the pattern "5" matches at its start.
StartsWith5(t) == t \in {"5"}
\* toLowerCase / the i flag, on the tokens that carry capitals the patterns read.
Lower(t) ==
  CASE t = "Rated" -> "rated"
    [] t = "Stars" -> "stars"
    [] t = "Local" -> "local"
    [] t = "Guide" -> "guide"
    [] t = "Meer" -> "meer"
    [] t = "Like" -> "like"
    [] t = "Great" -> "great"
    [] t = "Nice" -> "nice"
    [] t = "Jane" -> "jane"
    [] t = "Doe" -> "doe"
    [] t = "Bob" -> "bob"
    [] OTHER -> t
\* A token on which the pattern "star" matches at its start (i flag).
IsStarWord(t) == Lower(t) \in {"star", "stars"}
IsAgoWord(t) == Lower(t) \in {"ago"}
\* (?:month|year|week|day)s?
NameUnits == {"month", "months", "year", "years", "week", "weeks", "day", "days"}
\* (?:month|year|week|day|hour|minute)s?
DateUnits == NameUnits \cup {"hour", "hours", "minute", "minutes"}

\* The tokens of the vocabulary by their number of characters (String.length).
TokensOfLen ==
  <<{"/", "·", "0", "1", "2", "3", "4", "5", "7", "s", ""},
    {"12", "of", "0.", "4.", "ok"},
    {"0.5", "4.5", "out", "Bob", "ago", "Doe", "day", "bad", "the", "was", "100", "bob", "doe"},
    {"Jane", "star", "slow", "Nice", "days", "rude", "Meer", "Like", "food", "nice", "jane"},
    {"stars", "Rated", "food,", "Great", "Local", "Guide", "hours", "place", "great", "local",
     "guide", "Stars"},
    {"months", "photos", "foto's"},
    {"service", "reviews", "place!!"},
    {"terrible"}>>

TokLen(t) == CHOOSE n \in 1..Len(TokensOfLen) : t \in TokensOfLen[n]

\* What a pattern that starts with \d+ (no decimal part) leaves of a numeric
\* token in front of its match: the integer part and the point of a decimal.
DecimalLead(t) == IF t = "0.5" THEN <<"0.">> ELSE IF t = "4.5" THEN <<"4.">> ELSE <<>>
\* The digits such a pattern matches in the token.
TailDigits(t) == IF t \in {"0.5", "4.5"} THEN "5" ELSE t

\* ------------------------------------------------------- string helpers
At(s, p) == IF p \in 1..Len(s) THEN s[p] ELSE ""

RECURSIVE SkipWs(_, _)
\* \s* from position p: the first position at or after p that holds no line break.
SkipWs(s, p) == IF p <= Len(s) /\ s[p] = NL THEN SkipWs(s, p + 1) ELSE p

RECURSIVE TrimLeft(_)
TrimLeft(s) == IF s # <<>> /\ Head(s) = NL THEN TrimLeft(Tail(s)) ELSE s
RECURSIVE TrimRight(_)
TrimRight(s) ==
  IF s # <<>> /\ s[Len(s)] = NL THEN TrimRight(SubSeq(s, 1, Len(s) - 1)) ELSE s
\* String.prototype.trim
Trim(s) == TrimLeft(TrimRight(s))

RECURSIVE SplitNL(_, _)
\* split("\n"): the pieces of s between line breaks, cur being the piece in progress.
SplitNL(s, cur) ==
  IF s = <<>> THEN <<cur>>
  ELSE IF Head(s) = NL THEN <<cur>> \o SplitNL(Tail(s), <<>>)
  ELSE SplitNL(Tail(s), Append(cur, Head(s)))

\* allText.split('\n').map(trim).filter(l => l.length > 0)
Lines(s) == SelectSeq(SplitNL(s, <<>>), LAMBDA l : l # <<>>)

RECURSIVE JoinSpace(_)
\* join(' ') of lines that hold no line break.
JoinSpace(ls) == IF ls = <<>> THEN <<>> ELSE Head(ls) \o JoinSpace(Tail(ls))

RECURSIVE CharLen(_)
\* String.length of a text whose tokens are separated by one character each.
CharLen(s) ==
  IF s = <<>> THEN 0
  ELSE IF Len(s) = 1 THEN TokLen(s[1])
  ELSE TokLen(Head(s)) + 1 + CharLen(Tail(s))

\* The least position of 1..Len(s) that satisfies P, or 0.
FirstPos(s, P(_)) ==
  IF \E p \in 1..Len(s) : P(p)
  THEN CHOOSE p \in 1..Len(s) : P(p) /\ \A q \in 1..(p - 1) : ~P(q)
  ELSE 0
\* ------------------------------------------------------------- patterns
\* \d+(?:\.\d+)?\s*(?:out of|\/)\s*5 matching at position p (i flag).
OutOf5At(s, p) ==
  /\ IsNum(At(s, p))
  /\ LET q == SkipWs(s, p + 1) IN
       \/ /\ Lower(At(s, q)) = "out"
          /\ Lower(At(s, q + 1)) = "of"
          /\ StartsWith5(At(s, SkipWs(s, q + 2)))
       \/ /\ At(s, q) = "/"
          /\ StartsWith5(At(s, SkipWs(s, q + 1)))

\* \d+(?:\.\d+)?\s*star matching at position p (i flag).
StarAt(s, p) == IsNum(At(s, p)) /\ IsStarWord(At(s, SkipWs(s, p + 1)))

\* The text pattern of the rating: either alternative at p.
RatingAt(s, p) == OutOf5At(s, p) \/ StarAt(s, p)

\* Rated (\d+(?:\.\d+)?) out of 5, matching at position p of an accessible label.
RatedAt(s, p) ==
  /\ Lower(At(s, p)) = "rated"
  /\ IsNum(At(s, p + 1))
  /\ Lower(At(s, p + 2)) = "out"
  /\ Lower(At(s, p + 3)) = "of"
  /\ StartsWith5(At(s, p + 4))

\* \d+\s*(?:units)s?\s*ago matching at position p.
AgoAt(s, p, units) ==
  /\ IsNum(At(s, p))
  /\ LET q == SkipWs(s, p + 1) IN
       /\ Lower(At(s, q)) \in units
       /\ IsAgoWord(At(s, SkipWs(s, q + 1)))

\* Last position of the match of AgoAt at p.
AgoEnd(s, p) == SkipWs(s, SkipWs(s, p + 1) + 1)

\* Last position of the match of RatingAt at p.
RatingEnd(s, p) ==
  LET q == SkipWs(s, p + 1) IN
    IF OutOf5At(s, p)
    THEN IF At(s, q) = "/" THEN SkipWs(s, q + 1) ELSE SkipWs(s, q + 2)
    ELSE q

\* What a match of RatingAt at p leaves of its last token: "star" is matched as
\* a prefix, so "stars" leaves its final s behind.
RatingResidue(s, p) ==
  IF ~OutOf5At(s, p) /\ Lower(At(s, RatingEnd(s, p))) = "stars" THEN <<"s">> ELSE <<>>

\* ------------------------------------------------- the renderer's answers
\* What one element query of an item answers: the element is absent, the query
\* or the read throws, or the element is present with a text (Null: the
\* attribute read returned null).
Absent == [st |-> "absent", text |-> Null]
Throws == [st |-> "throws", text |-> Null]
Present(t) == [st |-> "present", text |-> Some(t)]
PresentNoAttr == [st |-> "present", text |-> Null]
\* ------------------------------------------------------ field extractors
MinResidueLen == 20

\* Rating, method 1: the accessible label of the rating element.
RatingFromLabel(item) ==
  IF item.ratingEl.st = "present" /\ TruthyStr(item.ratingEl.text)
  THEN LET lab == Val(item.ratingEl.text)
           p == FirstPos(lab, LAMBDA q : RatedAt(lab, q) \/ StarAt(lab, q))
       IN IF p = 0 THEN Null
          ELSE Some(NumVal[IF RatedAt(lab, p) THEN lab[p + 1] ELSE lab[p]])
  ELSE Null

\* Rating, method 2: the pattern in the flattened text, tried when method 1
\* left a falsy rating; a value outside (0,5] leaves the rating as it was.
RatingFromText(rating, allText) ==
  IF TruthyNum(rating) THEN rating
  ELSE LET p == FirstPos(allText, LAMBDA q : RatingAt(allText, q)) IN
         IF p # 0 /\ NumVal[allText[p]] > 0 /\ NumVal[allText[p]] <= 50
         THEN Some(NumVal[allText[p]])
         ELSE rating

ExtractRating(item, allText) == RatingFromText(RatingFromLabel(item), allText)

\* The text of an element read with innerText().trim(), Null when the element
\* is absent or the read throws.
ElementText(el) == IF el.st = "present" THEN Some(Trim(Val(el.text))) ELSE Null

\* replace(/\s*\d+\s*(?:month|year|week|day)s?\s*ago.*$/i, '').trim()
StripAgoSuffix(line) ==
  LET p == FirstPos(line, LAMBDA q : AgoAt(line, q, NameUnits)) IN
    IF p = 0 THEN line ELSE SubSeq(line, 1, p - 1) \o DecimalLead(line[p])

ExtractName(item, lines) ==
  LET byLink == ElementText(item.nameEl) IN
    IF ~TruthyStr(byLink) /\ Len(lines) > 0 /\ lines[1] # <<>>
    THEN Some(StripAgoSuffix(lines[1]))
    ELSE byLink

IsRatingLine(line) == \E p \in 1..Len(line) : RatingAt(line, p)
IsDateLine(line) == \E p \in 1..Len(line) : AgoAt(line, p, DateUnits)

\* Review text, method 2: the lines after the first that are neither a rating
\* line, a date line nor the reviewer name.
TextFromLines(text, lines, reviewer_name) ==
  IF ~TruthyStr(text) /\ Len(lines) > 1
  THEN LET textLines ==
             SelectSeq(Tail(lines),
                       LAMBDA line :
                         /\ ~IsRatingLine(line)
                         /\ ~IsDateLine(line)
                         /\ ~(TruthyStr(reviewer_name) /\ line = Trim(Val(reviewer_name))))
       IN IF Len(textLines) > 0 THEN OrNull(Some(Trim(JoinSpace(textLines)))) ELSE text
  ELSE text

\* Does the name n (i flag) occur in s at position p?
NameAt(s, p, n) ==
  /\ p + Len(n) - 1 <= Len(s)
  /\ \A k \in 1..Len(n) : Lower(s[p + k - 1]) = Lower(n[k])

RECURSIVE RemoveName(_, _, _)
RemoveName(s, p, n) ==
  IF p > Len(s) THEN <<>>
  ELSE IF NameAt(s, p, n) THEN RemoveName(s, p + Len(n), n)
  ELSE <<s[p]>> \o RemoveName(s, p + 1, n)

RECURSIVE RemoveRatings(_, _)
RemoveRatings(s, p) ==
  IF p > Len(s) THEN <<>>
  ELSE IF RatingAt(s, p)
  THEN DecimalLead(s[p]) \o RatingResidue(s, p) \o RemoveRatings(s, RatingEnd(s, p) + 1)
  ELSE <<s[p]>> \o RemoveRatings(s, p + 1)

RECURSIVE RemoveAgo(_, _)
RemoveAgo(s, p) ==
  IF p > Len(s) THEN <<>>
  ELSE IF AgoAt(s, p, DateUnits) THEN DecimalLead(s[p]) \o RemoveAgo(s, AgoEnd(s, p) + 1)
  ELSE <<s[p]>> \o RemoveAgo(s, p + 1)

\* replace(/\n+/g, ' ').trim()
FlattenNL(s) == SelectSeq(s, LAMBDA t : t # NL)

\* Review text, method 3: the flattened text without the name, the rating and
\* the date patterns, kept when more than MinResidueLen characters remain.
TextFromResidue(text, allText, reviewer_name) ==
  IF TruthyStr(text) THEN text
  ELSE LET noName == IF TruthyStr(reviewer_name)
                     THEN RemoveName(allText, 1, Val(reviewer_name))
                     ELSE allText
           cleanedText == FlattenNL(RemoveAgo(RemoveRatings(noName, 1), 1))
       IN IF CharLen(cleanedText) > MinResidueLen THEN Some(cleanedText) ELSE text

ExtractText(item, allText, lines, reviewer_name) ==
  TextFromResidue(TextFromLines(ElementText(item.textEl), lines, reviewer_name),
                  allText, reviewer_name)

\* The scan over the lines running forwards: the first line that holds a date.
DateFromFirstLine(date, lines) ==
  IF TruthyStr(date) THEN date
  ELSE LET j == IF \E k \in 1..Len(lines) : IsDateLine(lines[k])
                THEN CHOOSE k \in 1..Len(lines) :
                       /\ IsDateLine(lines[k])
                       /\ \A m \in 1..(k - 1) : ~IsDateLine(lines[m])
                ELSE 0
       IN IF j = 0 THEN date
          ELSE LET line == lines[j]
                   p == FirstPos(line, LAMBDA q : AgoAt(line, q, DateUnits))
               IN Some(<<TailDigits(line[p])>> \o SubSeq(line, p + 1, AgoEnd(line, p)))

\* Date, method 2: the last line that holds "<n> <unit> ago"; the match itself.
DateFromLines(date, lines) ==
  IF TruthyStr(date) THEN date
  ELSE LET j == IF \E k \in 1..Len(lines) : IsDateLine(lines[k])
                THEN CHOOSE k \in 1..Len(lines) :
                       /\ IsDateLine(lines[k])
                       /\ \A m \in (k + 1)..Len(lines) : ~IsDateLine(lines[m])
                ELSE 0
       IN IF j = 0 THEN date
          ELSE LET line == lines[j]
                   p == FirstPos(line, LAMBDA q : AgoAt(line, q, DateUnits))
               IN Some(<<TailDigits(line[p])>> \o SubSeq(line, p + 1, AgoEnd(line, p)))

ExtractDate(item, lines) == DateFromLines(ElementText(item.dateEl), lines)

\* ----------------------------------------------------------- item parser
\* The four fields as extracted from one item whose text was read.
Extracted(item) ==
  LET allText == item.allText
      lines == Lines(allText)
      reviewer_name == ExtractName(item, lines)
  IN [rating |-> ExtractRating(item, allText),
      review_text |-> ExtractText(item, allText, lines, reviewer_name),
      review_date |-> ExtractDate(item, lines),
      reviewer_name |-> reviewer_name]

\* if (rating || review_text || reviewer_name || review_date)
HasAnyData(x) ==
  \/ TruthyNum(x.rating)
  \/ TruthyStr(x.review_text)
  \/ TruthyStr(x.reviewer_name)
  \/ TruthyStr(x.review_date)

\* The record as a slip of the pen would build it: the name taken from the text.
ScrapedReviewNameSlip(x) ==
  [rating |-> x.rating,
   review_text |-> OrNull(x.review_text),
   review_date |-> OrNull(x.review_date),
   reviewer_name |-> OrNull(x.review_text)]

\* The record pushed to scraped.
ScrapedReview(x) ==
  [rating |-> x.rating,
   review_text |-> OrNull(x.review_text),
   review_date |-> OrNull(x.review_date),
   reviewer_name |-> OrNull(x.reviewer_name)]

\* How the loop body ends for one item.
ParseOutcome(item) ==
  IF item.textThrows THEN "textThrew"
  ELSE IF Trim(item.allText) = <<>> THEN "noText"
  ELSE IF Lines(item.allText) = <<>> THEN "noLines"
  ELSE IF HasAnyData(Extracted(item)) THEN "accepted"
  ELSE "rejected"
\* ------------------------------------------------------ text cleaning
\* The place of a removed word: the empty string between its two separators.
GAP == ""
\* \b(Meer|Like|Delen|reviews?|review|foto'?s?)\b with the i flag
NoiseWords == {"meer", "like", "delen", "review", "reviews", "foto", "fotos", "foto's"}
\* The three icon glyphs U+E5D4, U+E8DC and U+E80D.
Glyphs == {"<U+E5D4>", "<U+E8DC>", "<U+E80D>"}
IsBlank(t) == t = NL \/ t = GAP

RemoveNoise(s) == [p \in 1..Len(s) |-> IF Lower(s[p]) \in NoiseWords THEN GAP ELSE s[p]]

RECURSIVE RemoveLocalGuide(_, _)
\* replace(/Local Guide.*?/gi, ""): the lazy tail matches nothing, so the two
\* words alone go.
RemoveLocalGuide(s, p) ==
  IF p > Len(s) THEN <<>>
  ELSE IF Lower(s[p]) = "local" /\ Lower(At(s, p + 1)) = "guide"
  THEN <<GAP>> \o RemoveLocalGuide(s, p + 2)
  ELSE <<s[p]>> \o RemoveLocalGuide(s, p + 1)

RECURSIVE SkipBlank(_, _)
\* \s+ from position p, over line breaks and the places of removed words.
SkipBlank(s, p) == IF p <= Len(s) /\ IsBlank(s[p]) THEN SkipBlank(s, p + 1) ELSE p

RECURSIVE RemoveCounters(_, _, _)
\* replace(/\d+\s+<word>/gi, ""), words being the tokens the word matches as a prefix.
RemoveCounters(s, p, words) ==
  IF p > Len(s) THEN <<>>
  ELSE IF IsNum(s[p]) /\ Lower(At(s, SkipBlank(s, p + 1))) \in words
  THEN DecimalLead(s[p]) \o <<GAP>> \o RemoveCounters(s, SkipBlank(s, p + 1) + 1, words)
  ELSE <<s[p]>> \o RemoveCounters(s, p + 1, words)

RemoveGlyphs(s) == [p \in 1..Len(s) |-> IF s[p] \in Glyphs THEN GAP ELSE s[p]]

RECURSIVE Collapse(_, _, _, _)
\* replace(/\s{2,}/g, " ").trim(): between two words a lone line break stays,
\* any longer run of white space becomes one space; run is the white space
\* met since the last word, started tells whether a word was met at all.
Collapse(s, p, run, started) ==
  IF p > Len(s) THEN <<>>
  ELSE IF IsBlank(s[p]) THEN Collapse(s, p + 1, Append(run, s[p]), started)
  ELSE (IF started /\ run = <<NL>> THEN <<NL>> ELSE <<>>)
       \o <<s[p]>> \o Collapse(s, p + 1, <<>>, TRUE)

cleanReviewText(raw) ==
  LET noNoise == RemoveNoise(raw)
      noGuide == RemoveLocalGuide(noNoise, 1)
      noReviews == RemoveCounters(noGuide, 1, {"review", "reviews"})
      noFotos == RemoveCounters(noReviews, 1, {"foto", "fotos", "foto's"})
      noGlyphs == RemoveGlyphs(noFotos)
  IN Collapse(noGlyphs, 1, <<>>, FALSE)

\* ------------------------------------------------------------ keywords
STOPWORDS ==
  {"the", "a", "an", "and", "or", "to", "of", "in", "on", "for", "with", "is", "it",
   "this", "that", "was", "were", "are", "at", "as", "but", "be", "have", "has", "had",
   "they", "them", "you", "your", "we", "our", "i", "he", "she", "their", "from", "so",
   "if", "not", "very", "just", "my", "me", "us"}

\* toLowerCase().replace(/[^a-z0-9\s]/g, " ").split(/\s+/) on one token.
Pieces(t) ==
  CASE t = NL -> <<>>
    [] t \in {"·", "/"} -> <<>>
    [] t = "food," -> <<"food">>
    [] t = "place!!" -> <<"place">>
    [] t = "0.5" -> <<"0", "5">>
    [] t = "0." -> <<"0">>
    [] t = "4.5" -> <<"4", "5">>
    [] t = "4." -> <<"4">>
    [] t = "foto's" -> <<"foto", "s">>
    [] OTHER -> <<Lower(t)>>

RECURSIVE AllPieces(_)
AllPieces(text) == IF text = <<>> THEN <<>> ELSE Pieces(Head(text)) \o AllPieces(Tail(text))

MinKeywordLen == 2

tokenize(text) ==
  SelectSeq(AllPieces(text), LAMBDA t : TokLen(t) > MinKeywordLen /\ t \notin STOPWORDS)

\* ----------------------------------------------------------- sentiment
\* The word valences of the lexicon that sentiment.analyze sums (AFINN).
Valence(w) ==
  CASE w \in {"great", "nice"} -> 3
    [] w \in {"bad", "terrible"} -> 0 - 3
    [] w = "rude" -> 0 - 2
    [] OTHER -> 0

RECURSIVE SumValence(_)
SumValence(ws) == IF ws = <<>> THEN 0 ELSE Valence(Head(ws)) + SumValence(Tail(ws))

\* sentiment.analyze(text).score
SentimentScore(text) == SumValence(AllPieces(text))

\* --------------------------------------------------------------- fixtures
\* One located review item as the renderer answers for it.
Item(textThrows, allText, ratingEl, nameEl, textEl, dateEl) ==
  [textThrows |-> textThrows, allText |-> allText, ratingEl |-> ratingEl,
   nameEl |-> nameEl, textEl |-> textEl, dateEl |-> dateEl]

JaneText ==
  <<"Jane", "Doe", NL, "4", "stars", NL, "Great", "food,", "slow", "service", NL,
    "2", "months", "ago">>
BobText == <<"Bob", NL, "Nice">>

\* Plain text only: every field comes from the text fallbacks.
ItemJane == Item(FALSE, JaneText, Absent, Absent, Absent, Absent)
\* innerText() of the item throws.
ItemTextThrows == Item(TRUE, <<>>, Absent, Absent, Absent, Absent)
\* Whitespace only.
ItemBlank == Item(FALSE, <<NL>>, Absent, Absent, Absent, Absent)
\* The accessible label states a rating above 5.
ItemOver ==
  Item(FALSE, BobText, Present(<<"Rated", "7", "out", "of", "5">>), Absent, Absent, Absent)
\* The accessible label states 0 stars and the text holds no rating.
ItemZero == Item(FALSE, BobText, Present(<<"0", "stars">>), Absent, Absent, Absent)
\* A name and nothing else.
ItemNameOnly == Item(FALSE, <<"Bob">>, Absent, Absent, Absent, Absent)
\* Every structured element present.
ItemStructured ==
  Item(FALSE, JaneText, Present(<<"Rated", "5", "out", "of", "5">>),
       Present(<<"Jane", "Doe">>), Present(<<"Great", "place!!">>),
       Present(<<"3", "days", "ago">>))
\* Half a star, in the text only.
ItemHalf ==
  Item(FALSE, <<"Bob", NL, "0.5", "stars", NL, "Nice">>, Throws, Throws, Throws, Throws)

\* The text lines carry the page's own words: a Local Guide badge with its
\* counter, and the "Meer" (more) link behind the text.
ItemNoisy ==
  Item(FALSE,
       <<"Bob", NL, "Local", "Guide", "·", "12", "reviews", NL, "Great", "place!!", "Meer">>,
       Absent, Absent, Absent, Absent)

\* The items a scraped page may hold.
ScrapeItems ==
  {ItemJane, ItemTextThrows, ItemBlank, ItemOver, ItemZero, ItemNameOnly,
   ItemStructured, ItemHalf, ItemNoisy}

\* ------------------------------------------------------------------ state
CallIds == {1, 2}
ScrollLimit == 10

VARIABLES
  call,     \* call[c]: the state of invocation c of scrapeGoogleMapsReviews
  reviews,  \* the rows of public.reviews, in insertion order
  report,   \* the last result of analyzeCompetitor
  handler   \* the request handler of POST /scrape-competitor/:id

vars == <<call, reviews, report, handler>>

NoResult == [kind |-> "none", value |-> 0, error |-> "none"]
Returned(v) == [kind |-> "return", value |-> v, error |-> "none"]
Thrown(e) == [kind |-> "throw", value |-> 0, error |-> e]

\* An invocation that has not been made.
IdleCall(c) ==
  [pc |-> "idle", competitorId |-> c, maxReviews |-> 0,
   browser |-> "none", closeAttempts |-> 0,
   nItems |-> 0, scrollI |-> 0, i |-> 0, seen |-> <<>>, scraped |-> <<>>,
   idx |-> 0, insertedCount |-> 0, insertOk |-> <<>>,
   pending |-> NoResult, result |-> NoResult]

\* The row with the competitor taken from a variable the invocations share.
ReviewRowSharedCompetitor(competitorId, review) ==
  [competitor_id |-> 1,
   rating |-> review.rating,
   review_text |-> review.review_text,
   review_date |-> review.review_date,
   reviewer_name |-> review.reviewer_name,
   source |-> "google_maps",
   raw_data |-> review]

\* The row with the reviewer name missing from the stringified struct.
ReviewRowRawWithoutName(competitorId, review) ==
  [competitor_id |-> competitorId,
   rating |-> review.rating,
   review_text |-> review.review_text,
   review_date |-> review.review_date,
   reviewer_name |-> review.reviewer_name,
   source |-> "google_maps",
   raw_data |-> [review EXCEPT !.reviewer_name = Null]]

\* The row of one INSERT INTO public.reviews.
ReviewRow(competitorId, review) ==
  [competitor_id |-> competitorId,
   rating |-> review.rating,
   review_text |-> review.review_text,
   review_date |-> review.review_date,
   reviewer_name |-> review.reviewer_name,
   source |-> "google_maps",
   raw_data |-> review]

\* return v / throw e inside the try block: control passes to finally.
Returning(s, v) == [s EXCEPT !.pc = "finally", !.pending = Returned(v)]
Throwing(s, e) == [s EXCEPT !.pc = "finally", !.pending = Thrown(e)]

\* The persistence loop, or the return when nothing was scraped.
AfterIterate(s) ==
  IF Len(s.scraped) > 0
  THEN [s EXCEPT !.pc = "persist", !.i = 0, !.idx = 0, !.insertedCount = 0]
  ELSE Returning([s EXCEPT !.i = 0, !.insertedCount = 0], 0)

\* The item loop over n located items, or what follows it when it is empty.
AfterLocate(s, n) ==
  IF 0 < n /\ 0 < s.maxReviews
  THEN [s EXCEPT !.pc = "iterate", !.nItems = n, !.scrollI = 0, !.i = 0]
  ELSE AfterIterate([s EXCEPT !.nItems = n, !.scrollI = 0])

Set(c, s) == call' = [call EXCEPT ![c] = s]

\* ---------------------------------------------------------------- actions
\* The handler calls scrapeGoogleMapsReviews(competitorId, url, maxReviews).
Start(c) ==
  /\ call[c].pc = "idle"
  /\ \E m \in 1..MaxReviewsArg :
       Set(c, [call[c] EXCEPT !.pc = "launch", !.maxReviews = m])
  /\ UNCHANGED <<reviews, report, handler>>

\* chromium.launch(): outside the try block.
Launch(c) ==
  /\ call[c].pc = "launch"
  /\ \/ Set(c, [call[c] EXCEPT !.pc = "newPage", !.browser = "open"])
     \/ Set(c, [call[c] EXCEPT !.pc = "done", !.result = Thrown("launch")])
  /\ UNCHANGED <<reviews, report, handler>>

\* browser.newPage(): outside the try block, so a throw skips finally.
NewPage(c) ==
  /\ call[c].pc = "newPage"
  /\ \/ Set(c, [call[c] EXCEPT !.pc = "goto"])
     \/ Set(c, [call[c] EXCEPT !.pc = "done", !.result = Thrown("newPage")])
  /\ UNCHANGED <<reviews, report, handler>>

\* page.goto(url) and the settle delay.
Goto(c) ==
  /\ call[c].pc = "goto"
  /\ \/ Set(c, [call[c] EXCEPT !.pc = "consent"])
     \/ Set(c, Throwing(call[c], "goto"))
  /\ UNCHANGED <<reviews, report, handler>>

\* The cookie-consent block and the debug screenshot: every throw is caught.
Consent(c) ==
  /\ call[c].pc = "consent"
  /\ \E outcome \in {"accepted", "notFound", "threw"} :
       Set(c, [call[c] EXCEPT !.pc = "tab"])
  /\ UNCHANGED <<reviews, report, handler>>

\* The Reviews tab: clicked when present, every throw is caught.
ReviewsTab(c) ==
  /\ call[c].pc = "tab"
  /\ \E outcome \in {"clicked", "notFound", "threw"} :
       Set(c, [call[c] EXCEPT !.pc = "locate1"])
  /\ UNCHANGED <<reviews, report, handler>>

\* page.$$('div[aria-label="Google review"]')
LocatePrimary(c) ==
  /\ call[c].pc = "locate1"
  /\ \/ \E n \in 0..MaxItems :
          Set(c, IF n = 0 THEN [call[c] EXCEPT !.pc = "locate2"]
                 ELSE AfterLocate(call[c], n))
     \/ Set(c, Throwing(call[c], "locate"))
  /\ UNCHANGED <<reviews, report, handler>>

\* page.$$('div[data-review-id]'), when the primary descriptor found nothing.
LocateSecondary(c) ==
  /\ call[c].pc = "locate2"
  /\ \/ \E n \in 0..MaxItems :
          Set(c, IF n = 0 THEN [call[c] EXCEPT !.pc = "findScroll"]
                 ELSE AfterLocate(call[c], n))
     \/ Set(c, Throwing(call[c], "locate"))
  /\ UNCHANGED <<reviews, report, handler>>

\* page.$(scrollContainerSelector), when both descriptors found nothing.
FindScroll(c) ==
  /\ call[c].pc = "findScroll"
  /\ \/ Set(c, [call[c] EXCEPT !.pc = "scroll", !.scrollI = 0])
     \/ Set(c, AfterLocate(call[c], 0))
     \/ Set(c, Throwing(call[c], "locate"))
  /\ UNCHANGED <<reviews, report, handler>>

\* The scroll loop with its bound tested after the pass: an eleventh scroll.
ScrollStepOneMore(c) ==
  /\ call[c].pc = "scroll"
  /\ call[c].scrollI <= ScrollLimit
  /\ \/ \E n \in 0..MaxItems :
          Set(c, IF n > 0 \/ call[c].scrollI + 1 > ScrollLimit
                 THEN AfterLocate(call[c], n)
                 ELSE [call[c] EXCEPT !.scrollI = @ + 1])
     \/ Set(c, Throwing(call[c], "locate"))
  /\ UNCHANGED <<reviews, report, handler>>

\* One pass of the scroll loop: scroll, wait, look for items again.
ScrollStep(c) ==
  /\ call[c].pc = "scroll"
  /\ call[c].scrollI < ScrollLimit
  /\ \/ \E n \in 0..MaxItems :
          Set(c, IF n > 0 \/ call[c].scrollI + 1 >= ScrollLimit
                 THEN AfterLocate(call[c], n)
                 ELSE [call[c] EXCEPT !.scrollI = @ + 1])
     \/ Set(c, Throwing(call[c], "locate"))
  /\ UNCHANGED <<reviews, report, handler>>

\* The loop condition off by one: i <= maxReviews.
InItemLoopOffByOne(s) == s.i < s.nItems /\ s.i <= s.maxReviews

\* The condition of the item loop: for (i = 0; i < reviewItems.length && i < maxReviews; i++)
InItemLoop(s) == s.i < s.nItems /\ s.i < s.maxReviews

\* The loop body with break in place of continue where the text read throws.
ParsedBreaksOnThrow(s, item) ==
  [s EXCEPT
     !.seen = Append(@, [handle |-> s.i, item |-> item]),
     !.scraped = IF ParseOutcome(item) = "accepted"
                 THEN Append(@, ScrapedReview(Extracted(item)))
                 ELSE @,
     !.i = IF item.textThrows THEN s.nItems ELSE @ + 1]

\* The body of the item loop on handle i, whose content is item: the text read
\* that throws and the empty text skip the item, any data at all pushes a record.
Parsed(s, item) ==
  [s EXCEPT
     !.seen = Append(@, [handle |-> s.i, item |-> item]),
     !.scraped = IF ParseOutcome(item) = "accepted"
                 THEN Append(@, ScrapedReview(Extracted(item)))
                 ELSE @,
     !.i = @ + 1]

\* One pass of the item loop.
ParseItem(c) ==
  /\ call[c].pc = "iterate"
  /\ InItemLoop(call[c])
  /\ \E item \in ScrapeItems :
       LET s == Parsed(call[c], item) IN
         Set(c, IF s.pc = "iterate" /\ InItemLoop(s) THEN s ELSE AfterIterate(s))
  /\ UNCHANGED <<reviews, report, handler>>

\* The loop body counting every attempt: insertedCount++ after the try block.
InsertedCountsAttempts(s, ok) ==
  [s EXCEPT
     !.insertedCount = @ + 1,
     !.insertOk = Append(@, ok),
     !.idx = @ + 1]

\* The loop body without its try block: a failed insert fails the call.
InsertedPropagates(s, ok) ==
  IF ok
  THEN [s EXCEPT !.insertedCount = @ + 1, !.insertOk = Append(@, ok), !.idx = @ + 1]
  ELSE Throwing([s EXCEPT !.insertOk = Append(@, ok)], "insert")

\* The body of the persistence loop on scraped[idx]: the insert succeeded (ok)
\* or threw, which is caught.
Inserted(s, ok) ==
  [s EXCEPT
     !.insertedCount = IF ok THEN @ + 1 ELSE @,
     !.insertOk = Append(@, ok),
     !.idx = @ + 1]

\* The insert made as soon as a record is pushed, inside the item loop.
InsertReviewWhileIterating(c) ==
  /\ call[c].pc \in {"iterate", "persist"}
  /\ call[c].idx < Len(call[c].scraped)
  /\ \E ok \in BOOLEAN :
       LET review == call[c].scraped[call[c].idx + 1]
           s == Inserted(call[c], ok)
       IN /\ reviews' = IF ok THEN Append(reviews, ReviewRow(call[c].competitorId, review))
                        ELSE reviews
          /\ Set(c, IF s.pc = "persist" /\ s.idx >= Len(s.scraped)
                    THEN Returning([s EXCEPT !.idx = 0], s.insertedCount)
                    ELSE s)
  /\ UNCHANGED <<report, handler>>

\* One pass of the persistence loop, and the return after the last one.
InsertReview(c) ==
  /\ call[c].pc = "persist"
  /\ call[c].idx < Len(call[c].scraped)
  /\ \E ok \in BOOLEAN :
       LET review == call[c].scraped[call[c].idx + 1]
           s == Inserted(call[c], ok)
       IN /\ reviews' = IF ok THEN Append(reviews, ReviewRow(call[c].competitorId, review))
                        ELSE reviews
          /\ Set(c, IF s.pc = "persist" /\ s.idx < Len(s.scraped) THEN s
                    ELSE IF s.pc = "persist" THEN Returning([s EXCEPT !.idx = 0], s.insertedCount)
                    ELSE s)
  /\ UNCHANGED <<report, handler>>

\* finally without the inner try: a throw of browser.close() replaces the outcome.
FinallyCloseSurfaces(c) ==
  /\ call[c].pc = "finally"
  /\ \E closed \in BOOLEAN :
       Set(c, [call[c] EXCEPT
                 !.pc = "done",
                 !.browser = IF closed THEN "closed" ELSE @,
                 !.closeAttempts = @ + 1,
                 !.result = IF closed THEN call[c].pending ELSE Thrown("close")])
  /\ UNCHANGED <<reviews, report, handler>>

\* finally: browser.close(), whose own throw is caught; then the call completes.
Finally(c) ==
  /\ call[c].pc = "finally"
  /\ \E closed \in BOOLEAN :
       Set(c, [call[c] EXCEPT
                 !.pc = "done",
                 !.browser = IF closed THEN "closed" ELSE @,
                 !.closeAttempts = @ + 1,
                 !.result = call[c].pending])
  /\ UNCHANGED <<reviews, report, handler>>

Scrape(c) ==
  \/ Start(c)
  \/ Launch(c)
  \/ NewPage(c)
  \/ Goto(c)
  \/ Consent(c)
  \/ ReviewsTab(c)
  \/ LocatePrimary(c)
  \/ LocateSecondary(c)
  \/ FindScroll(c)
  \/ ScrollStep(c)
  \/ ParseItem(c)
  \/ InsertReview(c)
  \/ Finally(c)

NoReport == [kind |-> "none"]

\* The handler before a request has come in; urls is the google_maps_url
\* column of public.competitors, by id.
IdleHandler ==
  [pc |-> "idle", id |-> 0, urls |-> [c \in CallIds |-> Null], responses |-> <<>>]

Init ==
  /\ call = [c \in CallIds |-> IdleCall(c)]
  /\ reviews = <<>>
  /\ report = NoReport
  /\ handler = IdleHandler

Next == Scrape(1)

Spec == Init /\ [][Next]_vars

\* ------------------------------------------- POST /scrape-competitor/:id
\* The ids a request may name: those of the two competitors and an unknown one.
RequestIds == CallIds \cup {3}

\* res.status(status).json({ error })
ErrorResponse(status, error) ==
  [status |-> status, error |-> error, competitor_id |-> 0, reviews_inserted |-> 0]
\* res.json({ status: "ok", competitor_id, reviews_inserted })
OkResponse(id, insertedCount) ==
  [status |-> 200, error |-> "none", competitor_id |-> id, reviews_inserted |-> insertedCount]

Responding(h, response) ==
  [h EXCEPT !.pc = "responded", !.responses = Append(@, response)]

\* Competitor 1 has a URL; competitor 2 has none, null or the empty string.
InitHandler ==
  /\ call = [c \in CallIds |-> IdleCall(c)]
  /\ reviews = <<>>
  /\ report = NoReport
  /\ \E url \in {Null, Some(<<>>)} :
       handler = [IdleHandler EXCEPT !.urls = (1 :> Some(<<"maps">>)) @@ (2 :> url)]

\* A request comes in: const { id } = req.params
Receive ==
  /\ handler.pc = "idle"
  /\ \E id \in RequestIds : handler' = [handler EXCEPT !.pc = "lookup", !.id = id]
  /\ UNCHANGED <<call, reviews, report>>

\* The lookup that takes every row found for a competitor to scrape.
LookupIgnoresUrl ==
  /\ handler.pc = "lookup"
  /\ \/ handler' = Responding(handler, ErrorResponse(500, "Failed to scrape competitor"))
     \/ handler' =
          IF handler.id \notin DOMAIN handler.urls
          THEN Responding(handler, ErrorResponse(404, "Competitor not found"))
          ELSE [handler EXCEPT !.pc = "scraping"]
  /\ UNCHANGED <<call, reviews, report>>

\* The lookup query, which may throw, and the two tests on its result.
Lookup ==
  /\ handler.pc = "lookup"
  /\ \/ handler' = Responding(handler, ErrorResponse(500, "Failed to scrape competitor"))
     \/ handler' =
          IF handler.id \notin DOMAIN handler.urls
          THEN Responding(handler, ErrorResponse(404, "Competitor not found"))
          ELSE IF ~TruthyStr(handler.urls[handler.id])
          THEN Responding(handler, ErrorResponse(400, "Competitor has no google_maps_url"))
          ELSE [handler EXCEPT !.pc = "scraping"]
  /\ UNCHANGED <<call, reviews, report>>

\* await scrapeGoogleMapsReviews(competitor.id, competitor.google_maps_url, 20)
HandlerScrape ==
  /\ handler.pc = "scraping"
  /\ Scrape(handler.id)

\* The call has completed: res.json on a return, the catch block on a throw.
Reply ==
  /\ handler.pc = "scraping"
  /\ call[handler.id].pc = "done"
  /\ handler' =
       Responding(handler,
                  IF call[handler.id].result.kind = "return"
                  THEN OkResponse(handler.id, call[handler.id].result.value)
                  ELSE ErrorResponse(500, "Failed to scrape competitor"))
  /\ UNCHANGED <<call, reviews, report>>

NextHandler == Receive \/ Lookup \/ HandlerScrape \/ Reply

SpecHandler == InitHandler /\ [][NextHandler]_vars
\* ----------------------------------------------- two invocations at once
\* The items of the page of each competitor.
PageOf(c) == IF c = 1 THEN {ItemJane, ItemTextThrows} ELSE {ItemStructured, ItemNameOnly}

\* Invocation c is on its own page, which holds at most MaxConcurrentItems
\* items, and was asked for the largest number of reviews.
OnOwnPage(s, c) ==
  /\ s.maxReviews = MaxReviewsArg
  /\ s.nItems <= MaxConcurrentItems
  /\ \A k \in 1..Len(s.seen) : s.seen[k].item \in PageOf(c)

\* Two invocations, one for each competitor, whose steps interleave at every await.
NextConcurrent == \E c \in CallIds : Scrape(c) /\ OnOwnPage(call'[c], c)

SpecConcurrent == Init /\ [][NextConcurrent]_vars

\* ---------------------------------------------------- analyzeCompetitor
TopKeywordsLimit == 15
TopSnippetsLimit == 5

RatingBuckets == {"1", "2", "3", "4", "5"}
\* String(rating): the numeric token whose value the rating is.
RatingKey(rating) == CHOOSE t \in DOMAIN NumVal : NumVal[t] = rating

\* The range test letting 0 through: rating >= 0 && rating <= 5.
InRangeFromZero(rating) == rating >= 0 /\ rating <= 50

\* rating >= 1 && rating <= 5
InRange(rating) == rating >= 10 /\ rating <= 50

\* Math.ceil in place of Math.round.
PercentCeil(count, total) == (100 * count + total - 1) \div total

\* Math.round(count / total * 100)
Percent(count, total) == (200 * count + total) \div (2 * total)
\* The quotient cut after two decimals instead of rounded.
Rounded2Down(sum, total) == (10 * sum) \div total
\* parseFloat((sum / total).toFixed(2)), sum in tenths, the result in hundredths.
Rounded2(sum, total) == (20 * sum + total) \div (2 * total)

RECURSIVE InsertByKey(_, _)
\* x put behind every element of the sorted sequence whose key is not larger.
InsertByKey(x, sorted) ==
  IF sorted = <<>> THEN <<x>>
  ELSE IF Head(sorted).key <= x.key THEN <<Head(sorted)>> \o InsertByKey(x, Tail(sorted))
  ELSE <<x>> \o sorted

RECURSIVE StableSort(_)
\* Array.prototype.sort with a comparator on key: ascending, stable.
StableSort(xs) ==
  IF xs = <<>> THEN <<>>
  ELSE InsertByKey(xs[Len(xs)], StableSort(SubSeq(xs, 1, Len(xs) - 1)))

Take(xs, n) == SubSeq(xs, 1, IF Len(xs) < n THEN Len(xs) ELSE n)

\* keywordFreq[token] = (keywordFreq[token] || 0) + 1, the object being kept as
\* its keys in order of creation.
Bump(freq, token) ==
  IF \E k \in 1..Len(freq) : freq[k].word = token
  THEN [k \in 1..Len(freq) |->
          IF freq[k].word = token THEN [freq[k] EXCEPT !.n = @ + 1] ELSE freq[k]]
  ELSE Append(freq, [word |-> token, n |-> 1])

RECURSIVE BumpAll(_, _)
BumpAll(freq, tokens) ==
  IF tokens = <<>> THEN freq ELSE BumpAll(Bump(freq, Head(tokens)), Tail(tokens))

\* A key that is an array index: Object.entries lists these first, in
\* ascending numeric order, and the other keys after them in order of creation.
IsIndexKey(w) == w \in {"0", "1", "2", "3", "4", "5", "7", "12", "100"}

ObjectEntries(freq) ==
  LET idx == SelectSeq(freq, LAMBDA e : IsIndexKey(e.word))
      rest == SelectSeq(freq, LAMBDA e : ~IsIndexKey(e.word))
      keyed == [k \in 1..Len(idx) |-> [key |-> NumVal[idx[k].word], e |-> idx[k]]]
      sorted == StableSort(keyed)
  IN [k \in 1..Len(sorted) |-> sorted[k].e] \o rest

\* The keyword list without its sort.
TopKeywordsUnsorted(freq) ==
  LET entries == Take(ObjectEntries(freq), TopKeywordsLimit)
  IN [k \in 1..Len(entries) |-> entries[k].word]

\* Object.entries(keywordFreq).sort((a, b) => b[1] - a[1]).slice(0, 15).map(([word]) => word)
TopKeywords(freq) ==
  LET entries == ObjectEntries(freq)
      keyed == [k \in 1..Len(entries) |-> [key |-> 0 - entries[k].n, e |-> entries[k]]]
      sorted == Take(StableSort(keyed), TopKeywordsLimit)
  IN [k \in 1..Len(sorted) |-> sorted[k].e.word]

\* The snippet list without its slice.
TopSnippetsUncapped(scored, sign) ==
  LET keyed == [k \in 1..Len(scored) |-> [key |-> sign * scored[k].score, e |-> scored[k]]]
      sorted == StableSort(keyed)
  IN [k \in 1..Len(sorted) |-> sorted[k].e.text]

\* The texts of the first TopSnippetsLimit reviews by score times sign, ascending.
TopSnippets(scored, sign) ==
  LET keyed == [k \in 1..Len(scored) |-> [key |-> sign * scored[k].score, e |-> scored[k]]]
      sorted == Take(StableSort(keyed), TopSnippetsLimit)
  IN [k \in 1..Len(sorted) |-> sorted[k].e.text]

\* The state of the row loop before its first row.
EmptyTally ==
  [ratingSum |-> 0,
   ratingDistribution |-> [b \in RatingBuckets |-> 0],
   posCount |-> 0, neuCount |-> 0, negCount |-> 0,
   positiveReviews |-> <<>>, negativeReviews |-> <<>>,
   keywordFreq |-> <<>>]

\* The body of the row loop with the positive bucket starting at score 1.
TallyPositiveFromOne(t, row) ==
  LET rating == IF row.rating = Null THEN 0 ELSE Val(row.rating)
      rawText == IF row.review_text = Null THEN <<>> ELSE Val(row.review_text)
      text == cleanReviewText(rawText)
      score == SentimentScore(text)
      inRange == InRange(rating)
      scored == [text |-> text, score |-> score, rating |-> rating]
  IN [ratingSum |-> IF inRange THEN t.ratingSum + rating ELSE t.ratingSum,
      ratingDistribution |->
        IF inRange
        THEN LET key == RatingKey(rating)
                 old == IF key \in DOMAIN t.ratingDistribution
                        THEN t.ratingDistribution[key] ELSE 0
             IN (key :> old + 1) @@ t.ratingDistribution
        ELSE t.ratingDistribution,
      posCount |-> IF score >= 1 THEN t.posCount + 1 ELSE t.posCount,
      neuCount |-> IF score >= 1 \/ score < 0 - 1 THEN t.neuCount ELSE t.neuCount + 1,
      negCount |-> IF score < 1 /\ score < 0 - 1 THEN t.negCount + 1 ELSE t.negCount,
      positiveReviews |->
        IF score >= 1 THEN Append(t.positiveReviews, scored) ELSE t.positiveReviews,
      negativeReviews |->
        IF score < 1 /\ score < 0 - 1 THEN Append(t.negativeReviews, scored)
        ELSE t.negativeReviews,
      keywordFreq |-> BumpAll(t.keywordFreq, tokenize(text))]

\* The body of the row loop.
Tally(t, row) ==
  LET rating == IF row.rating = Null THEN 0 ELSE Val(row.rating)
      rawText == IF row.review_text = Null THEN <<>> ELSE Val(row.review_text)
      text == cleanReviewText(rawText)
      score == SentimentScore(text)
      inRange == InRange(rating)
      scored == [text |-> text, score |-> score, rating |-> rating]
  IN [ratingSum |-> IF inRange THEN t.ratingSum + rating ELSE t.ratingSum,
      ratingDistribution |->
        IF inRange
        THEN LET key == RatingKey(rating)
                 old == IF key \in DOMAIN t.ratingDistribution
                        THEN t.ratingDistribution[key] ELSE 0
             IN (key :> old + 1) @@ t.ratingDistribution
        ELSE t.ratingDistribution,
      posCount |-> IF score > 1 THEN t.posCount + 1 ELSE t.posCount,
      neuCount |-> IF score > 1 \/ score < 0 - 1 THEN t.neuCount ELSE t.neuCount + 1,
      negCount |-> IF score <= 1 /\ score < 0 - 1 THEN t.negCount + 1 ELSE t.negCount,
      positiveReviews |->
        IF score > 1 THEN Append(t.positiveReviews, scored) ELSE t.positiveReviews,
      negativeReviews |->
        IF score <= 1 /\ score < 0 - 1 THEN Append(t.negativeReviews, scored)
        ELSE t.negativeReviews,
      keywordFreq |-> BumpAll(t.keywordFreq, tokenize(text))]

RECURSIVE TallyAll(_, _)
TallyAll(t, rows) == IF rows = <<>> THEN t ELSE TallyAll(Tally(t, Head(rows)), Tail(rows))

\* What analyzeCompetitor returns for the rows its query returned.
AnalysisOf(competitorId, rows) ==
  LET totalReviews == Len(rows) IN
    IF totalReviews = 0
    THEN [kind |-> "analysis",
          competitor_id |-> competitorId,
          total_reviews |-> 0,
          avg_rating |-> Null,
          rating_distribution |-> [b \in {} |-> 0],
          sentiment_breakdown |-> [positive |-> 0, neutral |-> 0, negative |-> 0],
          top_keywords |-> <<>>,
          top_positive_snippets |-> <<>>,
          top_negative_snippets |-> <<>>]
    ELSE LET t == TallyAll(EmptyTally, rows) IN
         [kind |-> "analysis",
          competitor_id |-> competitorId,
          total_reviews |-> totalReviews,
          avg_rating |-> IF totalReviews > 0 /\ t.ratingSum > 0
                         THEN Some(Rounded2(t.ratingSum, totalReviews))
                         ELSE Null,
          rating_distribution |-> t.ratingDistribution,
          sentiment_breakdown |->
            [positive |-> Percent(t.posCount, totalReviews),
             neutral |-> Percent(t.neuCount, totalReviews),
             negative |-> Percent(t.negCount, totalReviews)],
          top_keywords |-> TopKeywords(t.keywordFreq),
          top_positive_snippets |-> TopSnippets(t.positiveReviews, 0 - 1),
          top_negative_snippets |-> TopSnippets(t.negativeReviews, 1)]

\* SELECT rating, review_text FROM public.reviews
\* WHERE competitor_id = $1 AND review_text IS NOT NULL
QueryRows(competitorId) ==
  LET hit == SelectSeq(reviews,
                       LAMBDA r : r.competitor_id = competitorId /\ r.review_text # Null)
  IN [k \in 1..Len(hit) |-> [rating |-> hit[k].rating, review_text |-> hit[k].review_text]]

\* The orders in which the query may return n rows: it states none, so every
\* one; of a result longer than MaxRows, the order of insertion and its reverse.
QueryOrders(n) ==
  IF n <= MaxRows THEN Permutations(1..n)
  ELSE {[k \in 1..n |-> k], [k \in 1..n |-> n + 1 - k]}

\* analyzeCompetitor(c): the query, which states no order and may fail, and the
\* computation on its rows.
Analyze(c) ==
  /\ \/ \E f \in QueryOrders(Len(QueryRows(c))) :
          report' = AnalysisOf(c, [k \in 1..Len(QueryRows(c)) |-> QueryRows(c)[f[k]]])
     \/ report' = [kind |-> "throw", competitor_id |-> c]
  /\ UNCHANGED <<call, reviews, handler>>

\* Items whose records the analysed table may hold.
ItemBad ==
  Item(FALSE, <<"Bob", NL, "2", "stars", NL, "terrible", "rude", "service">>,
       Absent, Absent, Absent, Absent)
ItemPlain ==
  Item(FALSE, <<"Jane", "Doe", NL, "the", "service", "was", "slow">>, Absent, Absent, Absent,
       Absent)
ItemFrac ==
  Item(FALSE, <<"Bob", NL, "4.5", "stars", NL, "Great", "place">>, Absent, Absent, Absent, Absent)

StoredItems == {ItemJane, ItemOver, ItemZero, ItemNameOnly, ItemBad, ItemPlain, ItemFrac}

\* The rows a table may hold: what the scraper stores for those items.
StoredRowSet ==
  {ReviewRow(1, ScrapedReview(Extracted(it))) : it \in StoredItems}
  \cup {ReviewRow(2, ScrapedReview(Extracted(it))) : it \in {ItemJane, ItemNameOnly}}

RECURSIVE SeqOf(_)
\* The elements of a finite set, one after the other.
SeqOf(S) == IF S = {} THEN <<>> ELSE LET x == CHOOSE y \in S : TRUE IN <<x>> \o SeqOf(S \ {x})

StoredRowList == SeqOf(StoredRowSet)

\* The tables of n rows, one order of insertion for each multiset of rows (the
\* query returns them in any order).
Tables(n) ==
  {[k \in 1..n |-> StoredRowList[g[k]]] :
     g \in {h \in [1..n -> 1..Len(StoredRowList)] : \A i \in 1..(n - 1) : h[i] <= h[i + 1]}}

RowSeqs == UNION {Tables(n) : n \in 0..MaxRows}

\* An item with a rating label and a text element, and its row for competitor c.
ItemWithText(stars, text) ==
  Item(FALSE, <<"Bob">>, Present(<<"Rated", stars, "out", "of", "5">>), Absent, Present(text),
       Absent)
RowWithText(c, stars, text) == ReviewRow(c, ScrapedReview(Extracted(ItemWithText(stars, text))))

\* A table with more reviews than the lists of the analysis keep: competitor 1
\* has six positive reviews, a neutral and a negative one, with nineteen
\* keywords among them; competitor 2 has six negative reviews.
BusyTable ==
  <<RowWithText(1, "5", <<"Great", "food,", "slow", "service">>),
    RowWithText(1, "4", <<"Great", "Nice", "place">>),
    RowWithText(1, "5", <<"Nice", "place", "Jane", "Doe">>),
    RowWithText(1, "5", <<"Great", "Nice", "Great", "stars">>),
    RowWithText(1, "4.5", <<"Nice", "days", "hours", "months">>),
    RowWithText(1, "3", <<"Great", "Bob", "photos", "100", "out", "day">>),
    RowWithText(1, "3", <<"the", "service", "was", "slow", "12", "days">>),
    RowWithText(1, "1", <<"terrible", "rude", "service">>),
    RowWithText(2, "1", <<"terrible", "rude", "service">>),
    RowWithText(2, "2", <<"bad", "food,">>),
    RowWithText(2, "2", <<"rude">>),
    RowWithText(2, "1", <<"terrible", "bad", "rude">>),
    RowWithText(2, "2", <<"bad", "place">>),
    RowWithText(2, "1", <<"terrible">>)>>

\* A table whose reviews score 1, -1, 0, 6, -3 and 1.
EdgeTable ==
  <<RowWithText(1, "4", <<"Great", "rude">>),
    RowWithText(1, "3", <<"rude", "rude", "Great">>),
    RowWithText(1, "3", <<"the", "service", "was", "slow">>),
    RowWithText(1, "5", <<"Great", "Nice">>),
    RowWithText(1, "1", <<"terrible">>),
    RowWithText(1, "3", <<"rude", "Nice">>)>>

InitAnalysis ==
  /\ call = [c \in CallIds |-> IdleCall(c)]
  /\ reviews \in RowSeqs \cup {BusyTable, EdgeTable}
  /\ report = NoReport
  /\ handler = IdleHandler

NextAnalysis == \E c \in CallIds : Analyze(c)

SpecAnalysis == InitAnalysis /\ [][NextAnalysis]_vars

\* ------------------------------------- the item parser and the cleaner alone
RECURSIVE JoinNL(_)
\* join("\n")
JoinNL(ls) ==
  IF ls = <<>> THEN <<>>
  ELSE IF Len(ls) = 1 THEN ls[1]
  ELSE ls[1] \o <<NL>> \o JoinNL(Tail(ls))

\* The lines the flattened text of an item may be made of.
LinePool ==
  {<<"Jane", "Doe">>,
   <<"4", "stars">>,
   <<"Great", "food,", "slow", "service">>,
   <<"2", "months", "ago">>,
   <<"Jane", "Doe", "2", "months", "ago">>,
   <<"Nice", "place", "3", "days", "ago">>,
   <<"7", "/", "5">>}

\* An item that exposes none of the structured elements.
PlainItem(ls) == Item(FALSE, JoinNL(ls), Absent, Absent, Absent, Absent)
PlainItems == {PlainItem(ls) : ls \in UNION {[1..n -> LinePool] : n \in 1..MaxLines}}

ParseInputs == PlainItems \cup ScrapeItems \cup StoredItems

\* The raw text of the cleaning scenario.
LocalGuideText ==
  <<"Local", "Guide", "·", "12", "reviews", "·", "3", "photos", NL, "Great", "place!!">>
RawTokens == {"Local", "Guide", "12", "reviews", "Meer", "Great", "·", NL}
RawTexts == UNION {[1..n -> RawTokens] : n \in 0..MaxRawLen} \cup {LocalGuideText}

InitParse ==
  /\ call = [c \in CallIds |-> IdleCall(c)]
  /\ reviews = <<>>
  /\ report \in {[kind |-> "item", item |-> it] : it \in ParseInputs}
                \cup {[kind |-> "raw", raw |-> t] : t \in RawTexts}
  /\ handler = IdleHandler

\* The body of the item loop on one item, up to the record it pushes.
ParseOne ==
  /\ report.kind = "item"
  /\ report' = [kind |-> "parsed",
                item |-> report.item,
                outcome |-> ParseOutcome(report.item),
                review |-> IF ParseOutcome(report.item) = "accepted"
                           THEN Some(ScrapedReview(Extracted(report.item)))
                           ELSE Null]
  /\ UNCHANGED <<call, reviews, handler>>

\* cleanReviewText(raw)
CleanText ==
  /\ report.kind = "raw"
  /\ report' = [kind |-> "cleaned", raw |-> report.raw, text |-> cleanReviewText(report.raw)]
  /\ UNCHANGED <<call, reviews, handler>>

NextParse == ParseOne \/ CleanText

SpecParse == InitParse /\ [][NextParse]_vars

\* ------------------------------------------------------- scraper claims
Min(a, b) == IF a <= b THEN a ELSE b
Range(xs) == {xs[k] : k \in 1..Len(xs)}

\* What the item parser makes of each item a page may hold (computed once).
ParserTable ==
  [it \in ScrapeItems |->
     [outcome |-> ParseOutcome(it), review |-> ScrapedReview(Extracted(it))]]

Accepted(item) == ParserTable[item].outcome = "accepted"
RecordOf(item) == ParserTable[item].review

RECURSIVE AcceptedRecords(_)
\* The records of the accepted items among those read, in the order read.
AcceptedRecords(seen) ==
  IF seen = <<>> THEN <<>>
  ELSE (IF Accepted(Head(seen).item) THEN <<RecordOf(Head(seen).item)>> ELSE <<>>)
       \o AcceptedRecords(Tail(seen))

RECURSIVE StoredRows(_, _, _)
\* The rows of the records whose insert succeeded, in the order attempted.
StoredRows(competitorId, scraped, oks) ==
  IF oks = <<>> \/ scraped = <<>> THEN <<>>
  ELSE (IF Head(oks) THEN <<ReviewRow(competitorId, Head(scraped))>> ELSE <<>>)
       \o StoredRows(competitorId, Tail(scraped), Tail(oks))

CountTrue(oks) == Cardinality({k \in 1..Len(oks) : oks[k]})

HasNonNullField(r) ==
  \/ r.rating # Null
  \/ r.review_text # Null
  \/ r.reviewer_name # Null
  \/ r.review_date # Null

\* C1: a text read that throws on one item does not stop the batch.  When the
\* call returns, every one of the first maxReviews located items has been read,
\* every accepted one has its record in scraped and had its insert attempted;
\* and with exactly 3 items of which only the second one's text read throws,
\* the first and third being accepted and inserted, the call returns 2 and the
\* table holds the records of items 1 and 3.
C1_TextReadFailureIsolated ==
  LET s == call[1] IN
    s.result.kind = "return" =>
      /\ Len(s.seen) = Min(s.nItems, s.maxReviews)
      /\ s.scraped = AcceptedRecords(s.seen)
      /\ Len(s.insertOk) = Len(s.scraped)
      /\ ( /\ s.nItems = 3
           /\ Len(s.seen) = 3
           /\ ~s.seen[1].item.textThrows /\ Accepted(s.seen[1].item)
           /\ s.seen[2].item.textThrows
           /\ ~s.seen[3].item.textThrows /\ Accepted(s.seen[3].item)
           /\ \A k \in 1..Len(s.insertOk) : s.insertOk[k] )
         => /\ s.result.value = 2
            /\ reviews = <<ReviewRow(s.competitorId, RecordOf(s.seen[1].item)),
                           ReviewRow(s.competitorId, RecordOf(s.seen[3].item))>>

C1_Witness ==
  LET s == call[1] IN
    /\ s.result = Returned(2)
    /\ s.nItems = 3
    /\ Len(s.seen) = 3
    /\ Accepted(s.seen[1].item)
    /\ s.seen[2].item.textThrows
    /\ Accepted(s.seen[3].item)
    /\ Len(reviews) = 2

\* C2: the number returned is the number of inserts that succeeded, which is
\* the number of rows the call stored, and it is smaller than the number of
\* accepted records whenever an insert failed.
C2_ReturnsInsertedCount ==
  LET s == call[1] IN
    s.result.kind = "return" =>
      /\ s.result.value = CountTrue(s.insertOk)
      /\ s.result.value = Len(reviews)
      /\ (\E k \in 1..Len(s.insertOk) : ~s.insertOk[k]) => s.result.value < Len(s.scraped)

C2_Witness ==
  LET s == call[1] IN
    /\ s.result = Returned(1)
    /\ Len(s.scraped) = 2
    /\ \E k \in 1..Len(s.insertOk) : ~s.insertOk[k]

\* C3: a failed insert is isolated.  At every moment the table holds exactly
\* the records whose insert succeeded so far, those stored before a failure
\* included; and once an insert was attempted the call ends by returning, with
\* an insert attempted for every accepted record.
C3_InsertFailureIsolated ==
  LET s == call[1] IN
    /\ reviews = StoredRows(s.competitorId, s.scraped, s.insertOk)
    /\ (s.pc = "done" /\ s.insertOk # <<>>) =>
         /\ s.result.kind = "return"
         /\ Len(s.insertOk) = Len(s.scraped)

C3_Witness ==
  LET s == call[1] IN
    /\ s.pc = "done"
    /\ s.insertOk = <<TRUE, FALSE, TRUE>>
    /\ Len(reviews) = 2
    /\ s.result.kind = "return"

\* C4: once the browser is launched, browser.close() is attempted on every
\* exit path of the call.
C4_SessionAlwaysReleased ==
  LET s == call[1] IN
    (s.pc = "done" /\ s.browser # "none") => s.closeAttempts >= 1

\* C5: the only failure the call surfaces is a failure to reach the loaded
\* page (launch, page creation, navigation); a failure at any later step is
\* swallowed and the call returns a count.
C5_OnlyPageLoadFailureSurfaces ==
  LET s == call[1] IN
    s.result.kind = "throw" => s.result.error \in {"launch", "newPage", "goto"}

\* C6: every record handed to the insert call, and so every stored row, has at
\* least one non-null field among rating, review_text, reviewer_name and
\* review_date.
C6_NoAllNullRecord ==
  /\ \A k \in 1..Len(call[1].scraped) : HasNonNullField(call[1].scraped[k])
  /\ \A k \in 1..Len(reviews) : HasNonNullField(reviews[k])

C6_Witness ==
  \E k \in 1..Len(reviews) :
    /\ reviews[k].rating = Null
    /\ reviews[k].review_text = Null
    /\ reviews[k].review_date = Null
    /\ reviews[k].reviewer_name # Null

\* C7: the rating of every stored row is null or a number of [1,5].
C7_PersistedRatingInRange ==
  \A k \in 1..Len(reviews) :
    reviews[k].rating = Null \/ Val(reviews[k].rating) \in 10..50

\* C8: at most min(maxReviews, located items) items are read, namely handles
\* 0, 1, 2, ... in that order; the records accepted, the inserts attempted and
\* the number returned are each within that cap, and the rows are stored in
\* the source order of their items.
C8_CapAndSourceOrder ==
  LET s == call[1]
      cap == Min(s.maxReviews, s.nItems)
  IN /\ Len(s.seen) <= cap
     /\ \A k \in 1..Len(s.seen) : s.seen[k].handle = k - 1
     /\ Len(s.scraped) <= cap
     /\ Len(s.insertOk) <= cap
     /\ s.result.kind = "return" => s.result.value <= cap
     /\ reviews = StoredRows(s.competitorId, AcceptedRecords(s.seen), s.insertOk)

C8_Witness ==
  LET s == call[1] IN
    /\ s.pc = "done"
    /\ s.nItems = 3
    /\ s.maxReviews = 2
    /\ Len(s.seen) = 2
    /\ s.result = Returned(2)
\* ------------------------------------------------------ analysis claims
RowsOf(competitorId) == SelectSeq(reviews, LAMBDA r : r.competitor_id = competitorId)

\* C9: for a competitor with zero records the analysis holds total_reviews 0,
\* avg_rating null, the buckets "1".."5" all present with count zero, the three
\* percentages zero and the three lists empty.
C9_ZeroRecordsAnalysis ==
  (report.kind = "analysis" /\ RowsOf(report.competitor_id) = <<>>) =>
    /\ report.total_reviews = 0
    /\ report.avg_rating = Null
    /\ DOMAIN report.rating_distribution = RatingBuckets
    /\ \A b \in DOMAIN report.rating_distribution : report.rating_distribution[b] = 0
    /\ report.sentiment_breakdown = [positive |-> 0, neutral |-> 0, negative |-> 0]
    /\ report.top_keywords = <<>>
    /\ report.top_positive_snippets = <<>>
    /\ report.top_negative_snippets = <<>>

\* C10: total_reviews is the number of all rows stored for the competitor,
\* a row without review text or without a valid rating included.
C10_TotalCountsEveryRecord ==
  report.kind = "analysis" => report.total_reviews = Len(RowsOf(report.competitor_id))

\* The rows the analysis of the report read, in table order.
Analysed == QueryRows(report.competitor_id)
RatedInRange(row) == row.rating # Null /\ Val(row.rating) >= 10 /\ Val(row.rating) <= 50
RatedRows == SelectSeq(Analysed, RatedInRange)

RECURSIVE SumRatings(_)
SumRatings(rows) == IF rows = <<>> THEN 0 ELSE Val(Head(rows).rating) + SumRatings(Tail(rows))

RECURSIVE SumCounts(_, _)
\* The sum of the counts of distribution d over the set of buckets bs.
SumCounts(d, bs) ==
  IF bs = {} THEN 0
  ELSE LET b == CHOOSE x \in bs : TRUE IN d[b] + SumCounts(d, bs \ {b})

\* C11: the counts of rating_distribution add up to the number of analysed rows
\* whose rating lies in [1,5], each bucket holding the number of analysed rows
\* of its rating; a row with a null, zero or out-of-range rating adds nothing.
C11_DistributionCountsRated ==
  report.kind = "analysis" =>
    /\ SumCounts(report.rating_distribution, DOMAIN report.rating_distribution)
         = Len(RatedRows)
    /\ \A b \in DOMAIN report.rating_distribution :
         report.rating_distribution[b]
           = Cardinality({k \in 1..Len(RatedRows) : NumVal[b] = Val(RatedRows[k].rating)})

C11_Witness ==
  /\ report.kind = "analysis"
  /\ report.total_reviews = 3
  /\ \E k \in 1..Len(Analysed) : Analysed[k].rating = Null
  /\ \E k \in 1..Len(Analysed) : Analysed[k].rating = Some(70)
  /\ \E k \in 1..Len(Analysed) : Analysed[k].rating = Some(45)
  /\ SumCounts(report.rating_distribution, DOMAIN report.rating_distribution) = 1

\* C12: an avg_rating that is not null is the mean of the ratings in [1,5] of
\* the analysed rows, their sum divided by their number, rounded to 2 decimals.
C12_AvgIsMeanOfRated ==
  (report.kind = "analysis" /\ report.avg_rating # Null) =>
    /\ Len(RatedRows) > 0
    /\ Val(report.avg_rating) = Rounded2(SumRatings(RatedRows), Len(RatedRows))

\* The review texts a table may hold, and what the analysis makes of each
\* (computed once): the cleaned text, its score and its lower-case pieces.
StoredTexts ==
  {Val(r.review_text) :
     r \in {x \in StoredRowSet \cup Range(BusyTable) \cup Range(EdgeTable) :
              x.review_text # Null}}
TextFacts ==
  [t \in StoredTexts |->
     LET text == cleanReviewText(t) IN
       [text |-> text, score |-> SentimentScore(text), pieces |-> AllPieces(text)]]
Facts(row) == TextFacts[Val(row.review_text)]
ScoreOfClean == [t \in {TextFacts[x].text : x \in StoredTexts} |-> SentimentScore(t)]

Abs(n) == IF n < 0 THEN 0 - n ELSE n
CountRows(rows, Test(_)) == Cardinality({k \in 1..Len(rows) : Test(rows[k])})
\* p is count / total * 100 rounded to a nearest integer.
IsRounded(p, count, total) == 2 * Abs(100 * count - p * total) <= total
PercentSum == report.sentiment_breakdown.positive + report.sentiment_breakdown.neutral
              + report.sentiment_breakdown.negative

Occurrences(w, pieces) == Cardinality({k \in 1..Len(pieces) : pieces[k] = w})
RECURSIVE Frequency(_, _)
Frequency(w, rows) ==
  IF rows = <<>> THEN 0
  ELSE Occurrences(w, Facts(Head(rows)).pieces) + Frequency(w, Tail(rows))
\* The words of those texts that may be keywords.
Keywords ==
  {w \in UNION {{Facts(Analysed[k]).pieces[j] : j \in 1..Len(Facts(Analysed[k]).pieces)} :
                  k \in 1..Len(Analysed)} :
     TokLen(w) > 2 /\ w \notin STOPWORDS}

\* C14: top_keywords holds at most 15 words, no word twice, none of length 2
\* or less and none of the stopwords; it is in descending order of frequency
\* over the analysed rows, and no keyword left out is more frequent than one
\* kept; when there are fewer than 15 keywords all of them are listed.
C14_TopKeywords ==
  report.kind = "analysis" =>
    LET top == report.top_keywords
        kept == {top[k] : k \in 1..Len(top)}
    IN /\ Len(top) <= 15
       /\ Cardinality(kept) = Len(top)
       /\ kept \subseteq Keywords
       /\ Len(top) = Min(15, Cardinality(Keywords))
       /\ \A k \in 1..(Len(top) - 1) :
            Frequency(top[k], Analysed) >= Frequency(top[k + 1], Analysed)
       /\ \A w \in Keywords \ kept : \A k \in 1..Len(top) :
            Frequency(top[k], Analysed) >= Frequency(w, Analysed)

C14_Witness ==
  /\ report.kind = "analysis"
  /\ Len(report.top_keywords) = 15
  /\ Cardinality(Keywords) > 15
  /\ Frequency(report.top_keywords[1], Analysed) > Frequency(report.top_keywords[15], Analysed)
  /\ \E k \in 1..Len(Analysed) : \E j \in 1..Len(Facts(Analysed[k]).pieces) :
       Facts(Analysed[k]).pieces[j] \in STOPWORDS

\* list holds the texts of the first reviews of cands by rank (a score times a
\* sign, larger first): min(5, number of candidates) texts, in descending rank,
\* each text no more often than it is a candidate's, and no candidate left
\* out outranks a listed one.
IsTopList(list, cands) ==
  LET Rank(t) == ScoreOfClean[t]
      Listed(t) == Cardinality({k \in 1..Len(list) : list[k] = t})
      Offered(t) == Cardinality({k \in 1..Len(cands) : Facts(cands[k]).text = t})
  IN /\ Len(list) = Min(5, Len(cands))
     /\ \A k \in 1..Len(list) : Offered(list[k]) >= Listed(list[k])
     /\ \A k \in 1..(Len(list) - 1) : Abs(Rank(list[k])) >= Abs(Rank(list[k + 1]))
     /\ \A j \in 1..Len(cands) :
          Listed(Facts(cands[j]).text) < Offered(Facts(cands[j]).text)
            => \A k \in 1..Len(list) : Abs(Rank(list[k])) >= Abs(Facts(cands[j]).score)

\* C15: each snippet list has at most 5 entries; the positive list holds the
\* cleaned texts of the highest-scoring positive rows, highest score first, the
\* negative list those of the lowest-scoring negative rows, lowest score first.
C15_TopSnippets ==
  report.kind = "analysis" =>
    /\ Len(report.top_positive_snippets) <= 5
    /\ Len(report.top_negative_snippets) <= 5
    /\ \A k \in 1..Len(report.top_positive_snippets) :
         ScoreOfClean[report.top_positive_snippets[k]] > 1
    /\ \A k \in 1..Len(report.top_negative_snippets) :
         ScoreOfClean[report.top_negative_snippets[k]] < 0 - 1
    /\ IsTopList(report.top_positive_snippets,
                 SelectSeq(Analysed, LAMBDA r : Facts(r).score > 1))
    /\ IsTopList(report.top_negative_snippets,
                 SelectSeq(Analysed, LAMBDA r : Facts(r).score < 0 - 1))

C15_Witness ==
  /\ report.kind = "analysis"
  /\ Len(report.top_positive_snippets) = 5
  /\ CountRows(Analysed, LAMBDA r : Facts(r).score > 1) = 6
  /\ ScoreOfClean[report.top_positive_snippets[1]] > ScoreOfClean[report.top_positive_snippets[5]]

\* C16: two calls of analyzeCompetitor for the same competitor, the table
\* being the same for both, return the same analysis.
C16_SameTableSameAnalysis ==
  [][(/\ report.kind = "analysis"
      /\ report'.kind = "analysis"
      /\ report'.competitor_id = report.competitor_id
      /\ reviews' = reviews)
     => report' = report]_vars

\* C17: the analysis does not depend on the order in which the query returns
\* the rows: whatever that order was, the analysis is the one of the rows in
\* the order of the table, every field and the order of every list included.
C17_OrderIndependent ==
  report.kind = "analysis" => report = AnalysisOf(report.competitor_id, Analysed)

\* ------------------------------------------------- item parser claims
\* The item exposes none of the structured elements and its text was read.
NoElements(item) ==
  /\ ~item.textThrows
  /\ \A el \in {item.ratingEl, item.nameEl, item.textEl, item.dateEl} : el.st # "present"

\* A nullable text: null when the text is empty.
TextOrNull(t) == IF t = <<>> THEN Null ELSE Some(t)

\* The number of the first rating pattern of text s, null when it holds none.
PatternRating(s) ==
  IF \E p \in 1..Len(s) : RatingAt(s, p)
  THEN Some(NumVal[s[CHOOSE p \in 1..Len(s) :
                       RatingAt(s, p) /\ \A q \in 1..(p - 1) : ~RatingAt(s, q)]])
  ELSE Null

\* The lines after the first that are neither rating lines, date lines nor name.
FreeLines(ls, name) ==
  SelectSeq(Tail(ls), LAMBDA l : ~IsRatingLine(l) /\ ~IsDateLine(l) /\ l # name)

\* The index of the last date line of ls, 0 when it holds none.
LastDateLine(ls) ==
  IF \E k \in 1..Len(ls) : IsDateLine(ls[k])
  THEN CHOOSE k \in 1..Len(ls) : IsDateLine(ls[k]) /\ \A m \in (k + 1)..Len(ls) : ~IsDateLine(ls[m])
  ELSE 0

JaneRecord ==
  [rating |-> Some(40),
   reviewer_name |-> Some(<<"Jane", "Doe">>),
   review_text |-> Some(<<"Great", "food,", "slow", "service">>),
   review_date |-> Some(<<"2", "months", "ago">>)]

\* C18 as stated: for an item that exposes no structured element the name is
\* the first non-empty line, the rating the number of the rating pattern, the
\* text the join of the remaining lines that are neither rating lines, date
\* lines nor the name, and the date the last line that matches
\* "<n> <unit> ago"; the Jane Doe item yields Jane Doe, 4, "Great food, slow
\* service" and "2 months ago".
C18_FallbacksAsStated ==
  (report.kind = "parsed" /\ NoElements(report.item) /\ report.review # Null) =>
    LET ls == Lines(report.item.allText)
        r == Val(report.review)
        d == LastDateLine(ls)
    IN /\ r.reviewer_name = Some(ls[1])
       /\ r.rating = PatternRating(report.item.allText)
       /\ r.review_text = TextOrNull(JoinSpace(FreeLines(ls, ls[1])))
       /\ r.review_date = IF d = 0 THEN Null ELSE Some(ls[d])
       /\ report.item = ItemJane => r = JaneRecord

\* The part of line l in front of its first "<n> <unit> ago", the unit being
\* one of units; all of l when it holds none.
BeforeAgo(l, units) ==
  IF \E p \in 1..Len(l) : AgoAt(l, p, units)
  THEN SubSeq(l, 1, (CHOOSE p \in 1..Len(l) :
                       AgoAt(l, p, units) /\ \A q \in 1..(p - 1) : ~AgoAt(l, q, units)) - 1)
  ELSE l
\* The first "<n> <unit> ago" of line l.
AgoPart(l) ==
  LET p == CHOOSE q \in 1..Len(l) :
             AgoAt(l, q, DateUnits) /\ \A m \in 1..(q - 1) : ~AgoAt(l, m, DateUnits)
  IN SubSeq(l, p, AgoEnd(l, p))

\* C18 amended: for an item that exposes no structured element the name is the
\* first non-empty line cut in front of a "<n> <unit> ago" part (null when
\* nothing is left), the rating is the number of the first rating pattern when
\* it lies in (0,5] and null otherwise, the text is the join of the remaining
\* lines that are neither rating lines, date lines nor the name when there is
\* such a line, and otherwise null or a residue of more than 20 characters, and
\* the date is the "<n> <unit> ago" part of the last line that holds one; the
\* Jane Doe item yields Jane Doe, 4, "Great food, slow service", "2 months ago".
C18_Fallbacks ==
  (report.kind = "parsed" /\ NoElements(report.item) /\ report.review # Null) =>
    LET ls == Lines(report.item.allText)
        r == Val(report.review)
        d == LastDateLine(ls)
        name == BeforeAgo(ls[1], NameUnits)
        found == PatternRating(report.item.allText)
        free == FreeLines(ls, name)
    IN /\ r.reviewer_name = TextOrNull(name)
       /\ r.rating = IF found # Null /\ Val(found) > 0 /\ Val(found) <= 50 THEN found ELSE Null
       /\ free # <<>> => r.review_text = Some(JoinSpace(free))
       /\ free = <<>> => (r.review_text = Null \/ CharLen(Val(r.review_text)) > 20)
       /\ r.review_date = IF d = 0 THEN Null ELSE Some(AgoPart(ls[d]))
       /\ report.item = ItemJane => r = JaneRecord

C18_Witness ==
  /\ report.kind = "parsed"
  /\ report.item = ItemJane
  /\ NoElements(report.item)
  /\ report.review = Some(JaneRecord)

\* ------------------------------------------------------ cleaning claims
\* Text t holds a word of the page's user interface: a "more" / "like" /
\* "share" word, a "Local Guide" badge, or a "<n> reviews" / "<n> photos" counter.
HasBoilerplate(t) ==
  \E p \in 1..Len(t) :
    \/ Lower(t[p]) \in {"meer", "like", "delen"}
    \/ Lower(t[p]) = "local" /\ Lower(At(t, p + 1)) = "guide"
    \/ IsNum(t[p]) /\ Lower(At(t, p + 1)) \in {"review", "reviews", "photos", "foto's"}

\* C19: cleanReviewText removes a "Local Guide" prefix with its "<n> reviews"
\* and "<n> photos" counters and their separators and trims the result:
\* "Local Guide · 12 reviews · 3 photos\nGreat place!!" cleans to "Great place!!".
C19_LocalGuidePrefixRemoved ==
  (report.kind = "cleaned" /\ report.raw = LocalGuideText) =>
    report.text = <<"Great", "place!!">>

\* C20: the review_text of every stored row is a cleaned text: it holds no
\* word of the page's user interface.
C20_StoredTextCleaned ==
  \A k \in 1..Len(reviews) :
    reviews[k].review_text # Null => ~HasBoilerplate(Val(reviews[k].review_text))

\* ------------------------------------------------ scraper claims, continued
RECURSIVE AcceptedTexts(_)
\* The flattened texts of the accepted items among those read, in the order read.
AcceptedTexts(seen) ==
  IF seen = <<>> THEN <<>>
  ELSE (IF Accepted(Head(seen).item) THEN <<Head(seen).item.allText>> ELSE <<>>)
       \o AcceptedTexts(Tail(seen))

RECURSIVE Kept(_, _)
\* The elements of xs whose insert succeeded.
Kept(xs, oks) ==
  IF oks = <<>> \/ xs = <<>> THEN <<>>
  ELSE (IF Head(oks) THEN <<Head(xs)>> ELSE <<>>) \o Kept(Tail(xs), Tail(oks))

\* The flattened text of the item of each stored row, in the order of the rows.
TextsOfRows == Kept(AcceptedTexts(call[1].seen), call[1].insertOk)

\* raw_data holds text t as one of its members.
HoldsText(raw_data, t) ==
  \E f \in DOMAIN raw_data \ {"rating"} : raw_data[f] = Some(t)

\* C21 as stated: the raw_data of every stored row holds the full flattened
\* text of the item the row was made from.
C21_RawDataHoldsFullText ==
  \A k \in 1..Len(reviews) :
    k <= Len(TextsOfRows) => HoldsText(reviews[k].raw_data, TextsOfRows[k])

\* C21 amended: the raw_data of every stored row holds the four fields derived
\* from the item, as they are stored in the row's own columns, and nothing else.
C21_RawDataHoldsDerivedFields ==
  \A k \in 1..Len(reviews) :
    reviews[k].raw_data =
      [rating |-> reviews[k].rating,
       review_text |-> reviews[k].review_text,
       review_date |-> reviews[k].review_date,
       reviewer_name |-> reviews[k].reviewer_name]

C21_Witness ==
  /\ Len(reviews) = Len(TextsOfRows)
  /\ \E k \in 1..Len(reviews) :
       /\ TextsOfRows[k] = JaneText
       /\ reviews[k].raw_data.review_text = Some(<<"Great", "food,", "slow", "service">>)
       /\ reviews[k].raw_data.reviewer_name = Some(<<"Jane", "Doe">>)

\* The records invocation c has pushed and whose insert succeeded, in order.
OwnRecords(c) == Kept(AcceptedRecords(call[c].seen), call[c].insertOk)

\* The columns of a row that come from the parsed record.
ColumnsOf(row) ==
  [rating |-> row.rating,
   review_text |-> row.review_text,
   review_date |-> row.review_date,
   reviewer_name |-> row.reviewer_name]

\* C22: two interleaved invocations for different competitors do not affect
\* each other: the rows carrying a competitor's id are exactly the records its
\* own invocation parsed from its own page and inserted with success, in
\* order, no row belongs to anyone else, and an invocation that returns,
\* returns the number of its own successful inserts.
C22_InvocationsIndependent ==
  /\ \A k \in 1..Len(reviews) : reviews[k].competitor_id \in CallIds
  /\ \A c \in CallIds :
       LET rows == RowsOf(call[c].competitorId)
           own == OwnRecords(c)
       IN /\ Len(rows) = Len(own)
          /\ \A k \in 1..Len(rows) : ColumnsOf(rows[k]) = own[k]
          /\ \A k \in 1..Len(call[c].seen) : call[c].seen[k].item \in PageOf(c)
          /\ call[c].result.kind = "return" =>
               /\ call[c].result.value = CountTrue(call[c].insertOk)
               /\ call[c].result.value = Len(rows)

\* Both invocations have returned, the second one's insert having come
\* between the two inserts of the first.
C22_Witness ==
  /\ call[1].result = Returned(2)
  /\ call[2].result = Returned(1)
  /\ Len(reviews) = 3
  /\ reviews[1].competitor_id = 1
  /\ reviews[2].competitor_id = 2
  /\ reviews[3].competitor_id = 1
  /\ reviews[2].reviewer_name # reviews[1].reviewer_name

\* browser.close() was attempted by invocation c and threw.
CloseFailed(c) ==
  /\ call[c].pc = "done"
  /\ call[c].closeAttempts > 0
  /\ call[c].browser = "open"

\* C23: a failed session release is swallowed: the call ends as the try block
\* decided, with the error of the page load or of the item location when one
\* was thrown, and with the number of persisted rows otherwise.
C23_ReleaseFailureSwallowed ==
  CloseFailed(1) =>
    /\ call[1].result = call[1].pending
    /\ call[1].result.kind \in {"return", "throw"}
    /\ call[1].result.kind = "throw" => call[1].result.error \in {"goto", "locate"}
    /\ call[1].result.kind = "return" =>
         /\ call[1].result.value = CountTrue(call[1].insertOk)
         /\ call[1].result.value = Len(reviews)

\* The release failed after two rows were persisted, and 2 is returned.
C23_Witness ==
  /\ CloseFailed(1)
  /\ call[1].result = Returned(2)
  /\ Len(reviews) = 2

\* The place of each step in the order of the phases.
PhaseRank(pc) ==
  CASE pc = "idle" -> 0
    [] pc = "launch" -> 1
    [] pc = "newPage" -> 2
    [] pc = "goto" -> 3
    [] pc = "consent" -> 4
    [] pc = "tab" -> 5
    [] pc \in {"locate1", "locate2", "findScroll", "scroll"} -> 6
    [] pc = "iterate" -> 7
    [] pc = "persist" -> 8
    [] pc = "finally" -> 9
    [] pc = "done" -> 10

\* C24: the phases of one invocation run in the fixed order page load,
\* consent, Reviews tab, item location, iteration, persistence, release: no
\* step goes back to an earlier phase, a row is inserted only in the
\* persistence phase, when the iteration has read every item under the cap,
\* and nothing at all happens once the release was attempted.
C24_PhasesInOrder ==
  [][LET s == call[1]
         t == call'[1]
     IN /\ PhaseRank(t.pc) >= PhaseRank(s.pc)
        /\ (reviews' # reviews \/ t.insertOk # s.insertOk) =>
             /\ s.pc = "persist"
             /\ Len(s.seen) = Min(s.nItems, s.maxReviews)
             /\ t.seen = s.seen /\ t.scraped = s.scraped
        /\ s.closeAttempts > 0 => (t = s /\ reviews' = reviews)]_vars

\* Every phase was gone through: three items read, rows inserted, session released.
C24_Witness ==
  /\ call[1].pc = "done"
  /\ call[1].browser = "closed"
  /\ Len(call[1].seen) = 3
  /\ Len(call[1].insertOk) = 2
  /\ Len(reviews) = 1

\* The steps of the item location that come after the primary descriptor.
Fallbacks == {"locate2", "findScroll", "scroll"}

\* C25: item location tries the primary descriptor, the secondary one only
\* when the primary found nothing, and the scroll loop only when both found
\* nothing and a scroll container exists; the loop makes at most ScrollLimit
\* scrolls and ends with the first scroll after which an item is found.
C25_ItemLocation ==
  [][LET s == call[1]
         t == call'[1]
     IN /\ t.pc = "locate2" => s.pc = "locate1" /\ t.nItems = 0
        /\ t.pc = "findScroll" => s.pc = "locate2" /\ t.nItems = 0
        /\ (t.pc = "scroll" /\ s.pc # "scroll") =>
             s.pc = "findScroll" /\ t.scrollI = 0 /\ t.nItems = 0
        /\ s.pc = "scroll" =>
             /\ s.scrollI < ScrollLimit
             /\ t.pc = "scroll" =>
                  t.scrollI = s.scrollI + 1 /\ t.scrollI < ScrollLimit /\ t.nItems = 0
             /\ t.nItems > 0 => t.pc \notin Fallbacks
        /\ (s.pc \in {"locate1"} \cup Fallbacks /\ t.nItems > 0) =>
             t.pc = "iterate" /\ t.seen = <<>>]_vars

\* Nine scrolls have found nothing: the tenth is the last.
C25_Witness ==
  /\ call[1].pc = "scroll"
  /\ call[1].scrollI = ScrollLimit - 1
  /\ call[1].nItems = 0

\* A rating a strategy may yield: above 0 and at most 5.
PlausibleRating(r) == r # Null /\ Val(r) > 0 /\ Val(r) <= 50

\* The first of the values, in priority order, that passes the test; null when none does.
RECURSIVE FirstWin(_, _)
FirstWin(yields, passing) ==
  IF yields = <<>> THEN Null
  ELSE IF Head(yields) \in passing THEN Head(yields)
  ELSE FirstWin(Tail(yields), passing)

\* What each strategy yields on its own, in priority order.
RatingYields(item) == <<RatingFromLabel(item), RatingFromText(Null, item.allText)>>
NameYields(item) == <<ElementText(item.nameEl), ExtractName([item EXCEPT !.nameEl = Absent], Lines(item.allText))>>
TextYields(item, name) ==
  <<ElementText(item.textEl),
    TextFromLines(Null, Lines(item.allText), name),
    TextFromResidue(Null, item.allText, name)>>
DateYields(item) == <<ElementText(item.dateEl), DateFromLines(Null, Lines(item.allText))>>

RatingFirstWins(item, rec) ==
  rec.rating = FirstWin(RatingYields(item), {r \in Range(RatingYields(item)) : PlausibleRating(r)})
NameFirstWins(item, rec) ==
  rec.reviewer_name = FirstWin(NameYields(item), {n \in Range(NameYields(item)) : TruthyStr(n)})
TextFirstWins(item, rec) ==
  LET yields == TextYields(item, Extracted(item).reviewer_name) IN
    rec.review_text = FirstWin(yields, {t \in Range(yields) : TruthyStr(t)})
DateFirstWins(item, rec) ==
  rec.review_date = FirstWin(DateYields(item), {d \in Range(DateYields(item)) : TruthyStr(d)})

\* C26: each of the four fields of a pushed record is what the first strategy,
\* in priority order, that yields a non-empty, plausible value has yielded,
\* and null when no strategy yields one.
C26_FirstSuccessWins ==
  (report.kind = "parsed" /\ report.outcome = "accepted") =>
    LET item == report.item
        rec == Val(report.review)
    IN /\ RatingFirstWins(item, rec)
       /\ NameFirstWins(item, rec)
       /\ TextFirstWins(item, rec)
       /\ DateFirstWins(item, rec)

\* The analysed rows of each sentiment bucket, by the score of the cleaned text.
PositiveRows == SelectSeq(Analysed, LAMBDA r : Facts(r).score > 1)
NegativeRows == SelectSeq(Analysed, LAMBDA r : Facts(r).score < 0 - 1)
NeutralRows == SelectSeq(Analysed, LAMBDA r : Facts(r).score \in (0 - 1)..1)
TextsOf(rows) == {Facts(rows[k]).text : k \in 1..Len(rows)}

\* C27: every analysed row is in one sentiment bucket by its score, above 1
\* positive, below -1 negative, from -1 to 1 neutral: the three buckets add up
\* to total_reviews, each percentage is the share of its bucket, and the
\* snippet lists hold texts of positive and of negative rows only, all of them
\* when they are five or fewer.
C27_SentimentBuckets ==
  (report.kind = "analysis" /\ Len(Analysed) > 0) =>
    LET total == report.total_reviews IN
      /\ Len(PositiveRows) + Len(NeutralRows) + Len(NegativeRows) = total
      /\ IsRounded(report.sentiment_breakdown.positive, Len(PositiveRows), total)
      /\ IsRounded(report.sentiment_breakdown.neutral, Len(NeutralRows), total)
      /\ IsRounded(report.sentiment_breakdown.negative, Len(NegativeRows), total)
      /\ Range(report.top_positive_snippets) \subseteq TextsOf(PositiveRows)
      /\ Range(report.top_negative_snippets) \subseteq TextsOf(NegativeRows)
      /\ Range(report.top_positive_snippets) \cap TextsOf(NeutralRows) = {}
      /\ Range(report.top_negative_snippets) \cap TextsOf(NeutralRows) = {}
      /\ Len(report.top_positive_snippets) = Min(5, Len(PositiveRows))
      /\ Len(report.top_negative_snippets) = Min(5, Len(NegativeRows))

\* Rows of score 1, 0 and -1 were analysed along with a positive and a
\* negative one, and four of the six are neutral.
C27_Witness ==
  /\ report.kind = "analysis"
  /\ report.total_reviews = 6
  /\ \A v \in {0 - 1, 0, 1} : \E k \in 1..Len(NeutralRows) : Facts(NeutralRows[k]).score = v
  /\ Len(PositiveRows) = 1
  /\ Len(NegativeRows) = 1
  /\ report.sentiment_breakdown = [positive |-> 17, neutral |-> 67, negative |-> 17]
  /\ Len(report.top_positive_snippets) = 1

\* C28: avg_rating is null exactly when no analysed row has a rating in
\* [1,5]; otherwise it is the sum of those ratings divided by total_reviews,
\* the rows without such a rating counted in, rounded to 2 decimals.
C28_AvgOverTotal ==
  report.kind = "analysis" =>
    /\ report.avg_rating = Null <=> Len(RatedRows) = 0
    /\ report.avg_rating # Null =>
         /\ report.total_reviews = Len(Analysed)
         /\ 2 * Abs(10 * SumRatings(RatedRows) - Val(report.avg_rating) * report.total_reviews)
              <= report.total_reviews

\* Three analysed rows, one of them rated in range with 2 stars: 0.67.
C28_Witness ==
  /\ report.kind = "analysis"
  /\ report.total_reviews = 3
  /\ Len(RatedRows) = 1
  /\ SumRatings(RatedRows) = 20
  /\ report.avg_rating = Some(67)

\* The place of the first occurrence of word w in pieces, 0 when it has none.
FirstIndex(w, pieces) ==
  IF \E j \in 1..Len(pieces) : pieces[j] = w
  THEN CHOOSE j \in 1..Len(pieces) : pieces[j] = w /\ \A m \in 1..(j - 1) : pieces[m] # w
  ELSE 0

\* Some order of iteration over the analysed rows meets word u before word v:
\* a row holds u and either does not hold v or holds u first.
MayComeFirst(u, v) ==
  \E k \in 1..Len(Analysed) :
    LET pieces == Facts(Analysed[k]).pieces IN
      /\ FirstIndex(u, pieces) > 0
      /\ FirstIndex(v, pieces) = 0 \/ FirstIndex(u, pieces) < FirstIndex(v, pieces)

\* C29: of two keywords of equal frequency, top_keywords lists first the one
\* that the iteration over the rows and their tokens met first, whatever the
\* kind of token: a keyword listed before another of its frequency comes
\* before it in some row, or occurs in a row where the other does not.
C29_TiesKeepSourceOrder ==
  report.kind = "analysis" =>
    \A k \in 1..Len(report.top_keywords) : \A j \in (k + 1)..Len(report.top_keywords) :
      Frequency(report.top_keywords[k], Analysed) = Frequency(report.top_keywords[j], Analysed)
        => MayComeFirst(report.top_keywords[k], report.top_keywords[j])

\* The request names a competitor of the table whose URL is not empty.
HasUrl(id) == id \in DOMAIN handler.urls /\ TruthyStr(handler.urls[id])
NoScrape == \A c \in CallIds : call[c] = IdleCall(c)

\* C30: the handler starts a scrape only after its lookup has returned a row
\* with a non-empty google_maps_url; it answers 404 for an unknown id and 400
\* for a competitor without URL, both without scraping; and on every path, the
\* 500 ones included, it sends one response and no more.
C30_HandlerGuardsScrape ==
  /\ \A c \in CallIds :
       call[c].pc # "idle" =>
         handler.id = c /\ HasUrl(c) /\ handler.pc \in {"scraping", "responded"}
  /\ Len(handler.responses) = IF handler.pc = "responded" THEN 1 ELSE 0
  /\ handler.pc # "responded" => ENABLED NextHandler
  /\ handler.pc = "responded" =>
       LET r == handler.responses[1] IN
         /\ r.status \in {200, 400, 404, 500}
         /\ handler.id \notin DOMAIN handler.urls => r.status \in {404, 500} /\ NoScrape
         /\ (handler.id \in DOMAIN handler.urls /\ ~HasUrl(handler.id)) =>
              r.status \in {400, 500} /\ NoScrape
         /\ r.status = 404 => handler.id \notin DOMAIN handler.urls
         /\ r.status = 400 => handler.id \in DOMAIN handler.urls /\ ~HasUrl(handler.id)
         /\ r.status = 200 =>
              /\ HasUrl(handler.id)
              /\ call[handler.id].result = Returned(r.reviews_inserted)
              /\ r.competitor_id = handler.id
         /\ (HasUrl(handler.id) /\ r.status = 500 /\ ~NoScrape) =>
              call[handler.id].result.kind = "throw"

\* The scrape of competitor 1 has inserted two rows and the handler has answered 200.
C30_Witness ==
  /\ handler.pc = "responded"
  /\ handler.responses = <<OkResponse(1, 2)>>
  /\ Len(reviews) = 2
  /\ call[2] = IdleCall(2)
====
